---- MODULE Spec2Model ----
(***************************************************************************)
(* godu (src/main.go): a concurrent 'du'.  main registers one walkDir      *)
(* goroutine per root on the WaitGroup n, starts a watcher goroutine that  *)
(* waits for n to reach zero and closes the channel fileSizes, and then    *)
(* sums the sizes it receives from fileSizes until the channel is closed   *)
(* and drained.  walkDir reads one directory under the semaphore sema,     *)
(* registers and spawns one walkDir per subdirectory and sends the size of *)
(* every other entry on fileSizes.                                         *)
(*                                                                         *)
(* Both channels are made with capacity 256 in the source.  The model      *)
(* keeps their semantics and takes the two capacities from small ranges    *)
(* (1..MaxSema, 0..MaxBuf), so that a full gate and a full buffer are      *)
(* reached with the handful of goroutines a small tree gives.              *)
(***************************************************************************)
EXTENDS Naturals, Integers, Sequences, FiniteSets, TLC

\* ------------------------------------------------------------------ bounds
MaxSema == 2        \* largest capacity of sema tried
MaxBuf == 1         \* largest capacity of fileSizes tried (0 = unbuffered)
MaxRoots == 2       \* most command-line roots
MaxUnreadable == 1  \* most directories whose ReadDir fails
MaxThreads == 1     \* largest value given with -t
MaxVerboseRoots == 1  \* most command-line roots in the runs with -v

\* ------------------------------------------------------ the file system
\* An os.FileInfo as walkDir uses it: IsDir(), Name(), Size().
DirEntry(d) == [isDir |-> TRUE, name |-> d, size |-> 16]
FileEntry(s) == [isDir |-> FALSE, name |-> 0, size |-> s]

\* The directories of the file system walked; a directory is named by a number.
Dirs == {1, 2, 3}

\* The listing ioutil.ReadDir returns for a readable directory.
Listing(d) ==
  CASE d = 1 -> <<DirEntry(2), FileEntry(2)>>
    [] d = 2 -> <<FileEntry(4)>>
    [] d = 3 -> <<>>

\* The working directory, ".".
Cwd == 1

\* Line 113: the capacity sema is made with.
SemaCapacity == 256

\* Line 17: runtime.NumCPU(), the default of -t, on the machine modelled.
NumCPU == 4

\* Line 17: the values *tFlag can have: the default or the one given with -t.
TFlags == {NumCPU} \cup (1..MaxThreads)

\* flag.Args(): the root paths given on the command line.
ArgLists == UNION {[1..k -> Dirs] : k \in 0..MaxRoots}

\* main, lines 32-35: no argument means the single root ".".
Roots(args) == IF Len(args) = 0 THEN <<Cwd>> ELSE args

\* A goroutine running walkDir is named by the root it descends from and its
\* directory: within one root's tree every directory is walked at most once.
Tasks == (1..MaxRoots) \X Dirs

VARIABLES
  roots,       \* main's roots
  unreadable,  \* the directories whose ReadDir returns an error
  semaCap,     \* cap(sema)
  bufCap,      \* cap(fileSizes)
  mainpc,      \* main: "roots" (lines 41-44), "loop" (58-70), "done" (73)
  ri,          \* main: index of the next root to register
  n,           \* the WaitGroup's counter
  walkers,     \* per task: pc and the entries its range loop has left
  sema,        \* len(sema): tokens acquired and not released
  fileSizes,   \* the channel's buffer
  closed,      \* fileSizes is closed
  closes,      \* number of close(fileSizes) calls made
  watcher,     \* the closer goroutine: "none", "wait", "close", "done"
  nfiles,      \* main's running file count
  nbytes,      \* main's running byte total
  errs,        \* lines written to stderr by dirents
  panicked,    \* the runtime panicked (send on or close of a closed channel,
               \* negative WaitGroup counter)
  hitZero,     \* history: n has been decremented to zero at some point
  run,         \* which run of the program this is (1 unless it is run again)
  first,       \* the roots and final totals of run 1, once it is over
  acc,         \* the final totals of the later runs that are over, summed
  tFlag,       \* *tFlag
  gomaxprocs,  \* the runtime's GOMAXPROCS setting
  vFlag,       \* *vFlag
  progress     \* the last line printProgress wrote, NoProgress before the first

\* What no step of a run changes.
fixed == <<roots, unreadable, semaCap, bufCap, run, first, acc, tFlag,
           gomaxprocs, vFlag>>
vars == <<roots, unreadable, semaCap, bufCap, mainpc, ri, n, walkers, sema,
          fileSizes, closed, closes, watcher, nfiles, nbytes, errs, panicked,
          hitZero, run, first, acc, tFlag, gomaxprocs, vFlag, progress>>

Idle == [pc |-> "none", todo |-> <<>>]

\* Nothing printed by printProgress yet.
NoProgress == [nfiles |-> 0, nbytes |-> 0, goroutines |-> 0]

\* The state main starts from, for given arguments and file-system faults.
Start(args, bad, sc, bc) ==
  /\ roots = Roots(args)
  /\ unreadable = bad
  /\ semaCap = sc
  /\ bufCap = bc
  /\ mainpc = "roots"
  /\ ri = 1
  /\ n = 0
  /\ walkers = [t \in Tasks |-> Idle]
  /\ sema = 0
  /\ fileSizes = <<>>
  /\ closed = FALSE
  /\ closes = 0
  /\ watcher = "none"
  /\ nfiles = 0
  /\ nbytes = 0
  /\ errs = 0
  /\ panicked = FALSE
  /\ hitZero = FALSE
  /\ progress = NoProgress

\* Lines 16-17 and 28-29: flag.Parse(); runtime.GOMAXPROCS(*tFlag).
Flags(t, v) ==
  /\ tFlag = t
  /\ gomaxprocs = t
  /\ vFlag = v

Faults == {b \in SUBSET Dirs : Cardinality(b) <= MaxUnreadable}

NoRun == [roots |-> <<>>, nfiles |-> 0, nbytes |-> 0]

Init ==
  /\ \E args \in ArgLists, bad \in Faults, sc \in 1..MaxSema, bc \in 0..MaxBuf :
       Start(args, bad, sc, bc)
  /\ Flags(NumCPU, FALSE)
  /\ run = 1
  /\ first = NoRun
  /\ acc = <<0, 0>>

\* --------------------------------------------------------- sync.WaitGroup
\* Mutant of Add: the registration is lost.
AddNone(c) == c

\* n.Add(1)
Add(c) == c + 1

\* n.Done()
Done(c) == c - 1

\* ------------------------------------------------------------------ main
\* Mutant of RegisterRoot: every goroutine is started on the last root (the
\* loop variable captured instead of passed).
RegisterRootLast ==
  /\ ~panicked
  /\ mainpc = "roots"
  /\ ri <= Len(roots)
  /\ n' = Add(n)
  /\ walkers' = [walkers EXCEPT ![<<ri, roots[Len(roots)]>>] =
                                   [pc |-> "start", todo |-> <<>>]]
  /\ ri' = ri + 1
  /\ UNCHANGED <<fixed, progress, mainpc, sema, fileSizes, closed, closes, watcher, nfiles,
                 nbytes, errs, panicked, hitZero>>

\* Lines 41-44, one iteration: n.Add(1); go walkDir(root, &n, fileSizes).
RegisterRoot ==
  /\ ~panicked
  /\ mainpc = "roots"
  /\ ri <= Len(roots)
  /\ n' = Add(n)
  /\ walkers' = [walkers EXCEPT ![<<ri, roots[ri]>>] = [pc |-> "start", todo |-> <<>>]]
  /\ ri' = ri + 1
  /\ UNCHANGED <<fixed, progress, mainpc, sema, fileSizes, closed, closes, watcher, nfiles,
                 nbytes, errs, panicked, hitZero>>

\* Mutant of StartWatcher: the closer goroutine is started before the loop
\* over the roots has finished.
StartWatcherEarly ==
  /\ ~panicked
  /\ mainpc = "roots"
  /\ watcher = "none" \/ ri > Len(roots)
  /\ watcher' = IF watcher = "none" THEN "wait" ELSE watcher
  /\ mainpc' = IF ri > Len(roots) THEN "loop" ELSE mainpc
  /\ UNCHANGED <<fixed, progress, ri, n, walkers, sema, fileSizes, closed, closes, nfiles,
                 nbytes, errs, panicked, hitZero>>

\* Lines 45-48: after the loop over the roots, go func() { n.Wait(); close }();
\* main goes on to its receive loop.
StartWatcher ==
  /\ ~panicked
  /\ mainpc = "roots"
  /\ ri > Len(roots)
  /\ watcher' = "wait"
  /\ mainpc' = "loop"
  /\ UNCHANGED <<fixed, progress, ri, n, walkers, sema, fileSizes, closed, closes, nfiles,
                 nbytes, errs, panicked, hitZero>>

\* Mutant of Receive: the byte total is assigned, not added to.
ReceiveAssign ==
  /\ ~panicked
  /\ mainpc = "loop"
  /\ fileSizes # <<>>
  /\ nfiles' = nfiles + 1
  /\ nbytes' = Head(fileSizes)
  /\ fileSizes' = Tail(fileSizes)
  /\ UNCHANGED <<fixed, progress, mainpc, ri, n, walkers, sema, closed, closes, watcher,
                 errs, panicked, hitZero>>

\* Lines 61-66: a value is received: nfiles++; nbytes += size.
\* (The select's other case, <-tick, is the action Tick below.)
Receive ==
  /\ ~panicked
  /\ mainpc = "loop"
  /\ fileSizes # <<>>
  /\ nfiles' = nfiles + 1
  /\ nbytes' = nbytes + Head(fileSizes)
  /\ fileSizes' = Tail(fileSizes)
  /\ UNCHANGED <<fixed, progress, mainpc, ri, n, walkers, sema, closed, closes, watcher,
                 errs, panicked, hitZero>>

\* Mutant of RecvClosed: the loop leaves as soon as the channel is closed,
\* whatever is still buffered.
RecvClosedEarly ==
  /\ ~panicked
  /\ mainpc = "loop"
  /\ closed
  /\ mainpc' = "done"
  /\ UNCHANGED <<fixed, progress, ri, n, walkers, sema, fileSizes, closed, closes, watcher,
                 nfiles, nbytes, errs, panicked, hitZero>>

\* Lines 62-64 and 73: the receive reports the channel closed and drained;
\* break loop, print the final totals.
RecvClosed ==
  /\ ~panicked
  /\ mainpc = "loop"
  /\ fileSizes = <<>>
  /\ closed
  /\ mainpc' = "done"
  /\ UNCHANGED <<fixed, progress, ri, n, walkers, sema, fileSizes, closed, closes, watcher,
                 nfiles, nbytes, errs, panicked, hitZero>>

\* ------------------------------------------------------------ the watcher
\* Mutant of Wait: the watcher does not wait for the counter.
WaitNoCheck ==
  /\ ~panicked
  /\ watcher = "wait"
  /\ watcher' = "close"
  /\ UNCHANGED <<fixed, progress, mainpc, ri, n, walkers, sema, fileSizes, closed, closes,
                 nfiles, nbytes, errs, panicked, hitZero>>

\* Line 46: n.Wait() returns when the counter is zero.
Wait ==
  /\ ~panicked
  /\ watcher = "wait"
  /\ n = 0
  /\ watcher' = "close"
  /\ UNCHANGED <<fixed, progress, mainpc, ri, n, walkers, sema, fileSizes, closed, closes,
                 nfiles, nbytes, errs, panicked, hitZero>>

\* Line 47: close(fileSizes); closing a closed channel panics.
Close ==
  /\ ~panicked
  /\ watcher = "close"
  /\ watcher' = "done"
  /\ closes' = closes + 1
  /\ closed' = TRUE
  /\ panicked' = closed
  /\ UNCHANGED <<fixed, progress, mainpc, ri, n, walkers, sema, fileSizes, nfiles, nbytes,
                 errs, hitZero>>

\* ---------------------------------------------------------------- dirents
\* Mutant of Acquire: one token too many is handed out.
AcquireOffByOne(w) ==
  /\ ~panicked
  /\ walkers[w].pc = "start"
  /\ sema <= semaCap
  /\ sema' = sema + 1
  /\ walkers' = [walkers EXCEPT ![w].pc = "read"]
  /\ UNCHANGED <<fixed, progress, mainpc, ri, n, fileSizes, closed, closes, watcher, nfiles,
                 nbytes, errs, panicked, hitZero>>

\* Mutant of Acquire: the read does not go through the semaphore.
AcquireNoGate(w) ==
  /\ ~panicked
  /\ walkers[w].pc = "start"
  /\ walkers' = [walkers EXCEPT ![w].pc = "read"]
  /\ UNCHANGED <<fixed, progress, mainpc, ri, n, sema, fileSizes, closed, closes, watcher,
                 nfiles, nbytes, errs, panicked, hitZero>>

\* Line 117: sema <- struct{}{} blocks while the semaphore is full.
Acquire(w) ==
  /\ ~panicked
  /\ walkers[w].pc = "start"
  /\ sema < semaCap
  /\ sema' = sema + 1
  /\ walkers' = [walkers EXCEPT ![w].pc = "read"]
  /\ UNCHANGED <<fixed, progress, mainpc, ri, n, fileSizes, closed, closes, watcher, nfiles,
                 nbytes, errs, panicked, hitZero>>

\* Lines 120-125: what dirents returns, nil when ReadDir fails.
Entries(d) == IF d \in unreadable THEN <<>> ELSE Listing(d)

\* Mutant of Report: the error is swallowed.
ReportNothing(d) == errs

\* Line 122: one line on stderr when ReadDir fails.
Report(d) == IF d \in unreadable THEN errs + 1 ELSE errs

\* Mutant of Release: the token is not given back.
ReleaseNone(tokens) == tokens

\* Line 118: the deferred <-sema.
Release(tokens) == tokens - 1

\* Mutant of ReadDir: the token is not given back when dirents returns; the
\* walker carries it through its range loop.
ReadDirKeepToken(w) ==
  /\ ~panicked
  /\ walkers[w].pc = "read"
  /\ errs' = Report(w[2])
  /\ walkers' = [walkers EXCEPT ![w] = [pc |-> "loop", todo |-> Entries(w[2])]]
  /\ UNCHANGED <<fixed, progress, mainpc, ri, n, sema, fileSizes, closed, closes,
                 watcher, nfiles, nbytes, panicked, hitZero>>

\* Mutant of ReadDir: the release is not deferred; the error return at
\* line 123 leaves dirents without giving the token back.
ReadDirLeakOnError(w) ==
  /\ ~panicked
  /\ walkers[w].pc = "read"
  /\ errs' = Report(w[2])
  /\ sema' = IF w[2] \in unreadable THEN sema ELSE Release(sema)
  /\ walkers' = [walkers EXCEPT ![w] = [pc |-> "loop", todo |-> Entries(w[2])]]
  /\ UNCHANGED <<fixed, progress, mainpc, ri, n, fileSizes, closed, closes,
                 watcher, nfiles, nbytes, panicked, hitZero>>

\* Lines 118-125: ReadDir, the error report, and the deferred release as
\* dirents returns its entries to walkDir's range loop.
ReadDir(w) ==
  /\ ~panicked
  /\ walkers[w].pc = "read"
  /\ errs' = Report(w[2])
  /\ sema' = Release(sema)
  /\ walkers' = [walkers EXCEPT ![w] = [pc |-> "loop", todo |-> Entries(w[2])]]
  /\ UNCHANGED <<fixed, progress, mainpc, ri, n, fileSizes, closed, closes, watcher, nfiles,
                 nbytes, panicked, hitZero>>

\* ---------------------------------------------------------------- walkDir
\* Mutant of Spawn: the child is started without being registered.
SpawnNoAdd(w) ==
  /\ ~panicked
  /\ walkers[w].pc = "loop"
  /\ walkers[w].todo # <<>>
  /\ Head(walkers[w].todo).isDir
  /\ walkers' = [walkers EXCEPT
                   ![w].todo = Tail(@),
                   ![<<w[1], Head(walkers[w].todo).name>>] =
                       [pc |-> "start", todo |-> <<>>]]
  /\ UNCHANGED <<fixed, progress, mainpc, ri, n, sema, fileSizes, closed, closes, watcher,
                 nfiles, nbytes, errs, panicked, hitZero>>

\* Lines 102-105: a directory entry: n.Add(1); go walkDir(subdir, n, fileSizes).
Spawn(w) ==
  /\ ~panicked
  /\ walkers[w].pc = "loop"
  /\ walkers[w].todo # <<>>
  /\ Head(walkers[w].todo).isDir
  /\ n' = Add(n)
  /\ walkers' = [walkers EXCEPT
                   ![w].todo = Tail(@),
                   ![<<w[1], Head(walkers[w].todo).name>>] =
                       [pc |-> "start", todo |-> <<>>]]
  /\ UNCHANGED <<fixed, progress, mainpc, ri, sema, fileSizes, closed, closes, watcher,
                 nfiles, nbytes, errs, panicked, hitZero>>

\* Mutant of Send: a send that cannot go through at once is dropped (a select
\* with a default case).
SendOrDrop(w) ==
  /\ ~panicked
  /\ walkers[w].pc = "loop"
  /\ walkers[w].todo # <<>>
  /\ ~Head(walkers[w].todo).isDir
  /\ LET size == Head(walkers[w].todo).size IN
       IF closed THEN
         /\ panicked' = TRUE
         /\ UNCHANGED <<fileSizes, nfiles, nbytes>>
       ELSE IF Len(fileSizes) < bufCap THEN
         /\ fileSizes' = Append(fileSizes, size)
         /\ UNCHANGED <<nfiles, nbytes, panicked>>
       ELSE IF bufCap = 0 /\ mainpc = "loop" THEN
         /\ nfiles' = nfiles + 1
         /\ nbytes' = nbytes + size
         /\ UNCHANGED <<fileSizes, panicked>>
       ELSE UNCHANGED <<fileSizes, nfiles, nbytes, panicked>>
  /\ walkers' = [walkers EXCEPT ![w].todo = Tail(@)]
  /\ UNCHANGED <<fixed, progress, mainpc, ri, n, sema, closed, closes, watcher, errs, hitZero>>

\* Line 107: fileSizes <- entry.Size().  The send panics on a closed channel,
\* goes into the buffer when there is room, is handed to main directly when
\* the channel is unbuffered and main is in its select, and blocks otherwise.
Send(w) ==
  /\ ~panicked
  /\ walkers[w].pc = "loop"
  /\ walkers[w].todo # <<>>
  /\ ~Head(walkers[w].todo).isDir
  /\ LET size == Head(walkers[w].todo).size IN
       \/ /\ closed
          /\ panicked' = TRUE
          /\ UNCHANGED <<fileSizes, nfiles, nbytes>>
       \/ /\ ~closed
          /\ Len(fileSizes) < bufCap
          /\ fileSizes' = Append(fileSizes, size)
          /\ UNCHANGED <<nfiles, nbytes, panicked>>
       \/ /\ ~closed
          /\ bufCap = 0
          /\ mainpc = "loop"
          /\ nfiles' = nfiles + 1
          /\ nbytes' = nbytes + size
          /\ UNCHANGED <<fileSizes, panicked>>
  /\ walkers' = [walkers EXCEPT ![w].todo = Tail(@)]
  /\ UNCHANGED <<fixed, progress, mainpc, ri, n, sema, closed, closes, watcher, errs, hitZero>>

\* Mutant of Return: n.Done() is not deferred to the end of the range loop;
\* walkDir can mark itself complete and return with entries left.
ReturnEarly(w) ==
  /\ ~panicked
  /\ walkers[w].pc = "loop"
  /\ n' = Done(n)
  /\ panicked' = (n' < 0)
  /\ hitZero' = (hitZero \/ n' = 0)
  /\ walkers' = [walkers EXCEPT ![w].pc = "done"]
  /\ UNCHANGED <<fixed, progress, mainpc, ri, sema, fileSizes, closed, closes,
                 watcher, nfiles, nbytes, errs>>

\* Mutant of Return: when the directory read failed, walkDir returns without
\* marking itself complete.
ReturnNoDoneOnError(w) ==
  /\ ~panicked
  /\ walkers[w].pc = "loop"
  /\ walkers[w].todo = <<>>
  /\ n' = IF w[2] \in unreadable THEN n ELSE Done(n)
  /\ panicked' = (n' < 0)
  /\ hitZero' = (hitZero \/ n' = 0)
  /\ walkers' = [walkers EXCEPT ![w].pc = "done"]
  /\ UNCHANGED <<fixed, progress, mainpc, ri, sema, fileSizes, closed, closes,
                 watcher, nfiles, nbytes, errs>>

\* Lines 100 and 110: the range loop is over; the deferred n.Done() runs.
\* A negative WaitGroup counter panics.
Return(w) ==
  /\ ~panicked
  /\ walkers[w].pc = "loop"
  /\ walkers[w].todo = <<>>
  /\ n' = Done(n)
  /\ panicked' = (n' < 0)
  /\ hitZero' = (hitZero \/ n' = 0)
  /\ walkers' = [walkers EXCEPT ![w].pc = "done"]
  /\ UNCHANGED <<fixed, progress, mainpc, ri, sema, fileSizes, closed, closes, watcher,
                 nfiles, nbytes, errs>>

\* ------------------------------------------------------------- the program
Next ==
  \/ RegisterRoot
  \/ StartWatcher
  \/ Receive
  \/ RecvClosed
  \/ Wait
  \/ Close
  \/ \E w \in Tasks : Acquire(w)
  \/ \E w \in Tasks : ReadDir(w)
  \/ \E w \in Tasks : Spawn(w)
  \/ \E w \in Tasks : Send(w)
  \/ \E w \in Tasks : Return(w)

Spec == Init /\ [][Next]_vars

\* The scheduler runs some goroutine that can take a step.
FairSpec == Spec /\ WF_vars(Next)

\* ------------------------------------------------------ runs with -v
\* runtime.NumGoroutine(): main, the closer goroutine while it has not
\* returned, and every walkDir goroutine started and not returned.
NumGoroutine ==
  1 + (IF watcher \in {"wait", "close"} THEN 1 ELSE 0)
    + Cardinality({w \in Tasks : walkers[w].pc \in {"start", "read", "loop"}})

\* Mutant of printProgress: the two totals are passed in the wrong order.
printProgressSwapped(files, bytes) ==
  [nfiles |-> bytes, nbytes |-> files, goroutines |-> NumGoroutine]

\* Lines 88-96: the line printProgress writes (the rate left out).
printProgress(files, bytes) ==
  [nfiles |-> files, nbytes |-> bytes, goroutines |-> NumGoroutine]

\* Mutant of Tick: tick is set whether or not -v was given.
TickAlways ==
  /\ ~panicked
  /\ mainpc = "loop"
  /\ progress' = printProgress(nfiles, nbytes)
  /\ UNCHANGED <<fixed, mainpc, ri, n, walkers, sema, fileSizes, closed, closes,
                 watcher, nfiles, nbytes, errs, panicked, hitZero>>

\* Lines 51-54 and 67-68: tick is nil unless -v was given, and a nil channel
\* is never ready; with -v the 500 ms timer makes the case ready and the
\* select takes it: printProgress(nfiles, nbytes, start).
Tick ==
  /\ ~panicked
  /\ vFlag
  /\ mainpc = "loop"
  /\ progress' = printProgress(nfiles, nbytes)
  /\ UNCHANGED <<fixed, mainpc, ri, n, walkers, sema, fileSizes, closed, closes,
                 watcher, nfiles, nbytes, errs, panicked, hitZero>>

\* The root paths given on the command line in the runs where the timer is
\* modelled.
VerboseArgLists == UNION {[1..k -> Dirs] : k \in 0..MaxVerboseRoots}

\* main started with or without -v.
InitVerbose ==
  /\ \E args \in VerboseArgLists, bad \in Faults, sc \in 1..MaxSema, bc \in 0..MaxBuf :
       Start(args, bad, sc, bc)
  /\ \E v \in BOOLEAN : Flags(NumCPU, v)
  /\ run = 1
  /\ first = NoRun
  /\ acc = <<0, 0>>

SpecVerbose == InitVerbose /\ [][Next \/ Tick]_vars

\* The scheduler runs some goroutine that can take a step, and the timer
\* leaves the select time to take its receive case.
FairVerbose == SpecVerbose /\ WF_vars(Next)

\* ------------------------------------------- runs with the source's gate
\* Mutant of GateCapacity: sema is made with *tFlag slots.
GateCapacityFromFlag(t) == t

\* Line 113: the capacity of sema, whatever *tFlag is.
GateCapacity(t) == SemaCapacity

\* main started with sema as the source makes it, with or without -t.
InitConfig ==
  /\ \E args \in ArgLists, bad \in Faults, bc \in 0..MaxBuf, t \in TFlags :
       /\ Start(args, bad, GateCapacity(t), bc)
       /\ Flags(t, FALSE)
  /\ run = 1
  /\ first = NoRun
  /\ acc = <<0, 0>>

SpecConfig == InitConfig /\ [][Next]_vars

\* ------------------------------------------------- the program run again
\* main starts afresh on the same file system (the primed form of Start).
Restart(rs, sc, bc) ==
  /\ roots' = rs
  /\ semaCap' = sc
  /\ bufCap' = bc
  /\ mainpc' = "roots"
  /\ ri' = 1
  /\ n' = 0
  /\ walkers' = [t \in Tasks |-> Idle]
  /\ sema' = 0
  /\ fileSizes' = <<>>
  /\ closed' = FALSE
  /\ closes' = 0
  /\ watcher' = "none"
  /\ nfiles' = 0
  /\ nbytes' = 0
  /\ errs' = 0
  /\ panicked' = FALSE
  /\ hitZero' = FALSE
  /\ progress' = NoProgress
  /\ run' = run + 1
  /\ UNCHANGED <<unreadable, tFlag, gomaxprocs, vFlag>>

\* The run that has just ended, as the later runs remember it.
Ended == [roots |-> roots, nfiles |-> nfiles, nbytes |-> nbytes]

\* After run 1 has printed its totals the program is run a second time with
\* the same roots on the unmodified file system, under any capacities.
Rerun ==
  /\ mainpc = "done"
  /\ run = 1
  /\ first' = Ended
  /\ acc' = acc
  /\ \E sc \in 1..MaxSema, bc \in 0..MaxBuf : Restart(roots, sc, bc)

SpecTwice == Init /\ [][Next \/ Rerun]_vars

\* After a run with gate capacity 1 has printed its totals the program is run
\* a second time with the same roots and a larger gate capacity.
RerunWider ==
  /\ mainpc = "done"
  /\ run = 1
  /\ first' = Ended
  /\ acc' = acc
  /\ \E sc \in 2..MaxSema : Restart(roots, sc, bufCap)

\* main started with a semaphore of capacity 1.
InitSerial == Init /\ semaCap = 1

SpecWiden == InitSerial /\ [][Next \/ RerunWider]_vars

\* After a run over roots r1..rk has printed its totals, the program is run
\* on r1 alone, then on r2 alone, ..., on the unmodified file system.
RunAlone ==
  /\ mainpc = "done"
  /\ LET all == IF run = 1 THEN roots ELSE first.roots IN
       /\ run <= Len(all)
       /\ first' = IF run = 1 THEN Ended ELSE first
       /\ acc' = IF run = 1 THEN acc ELSE <<acc[1] + nfiles, acc[2] + nbytes>>
       /\ Restart(<<all[run]>>, semaCap, bufCap)

SpecSplit == Init /\ [][Next \/ RunAlone]_vars


\* ---------------------------------------------------------------- claims
\* What a walk should count, computed from the file system alone: the number
\* and the summed size of the non-directory entries below the entries ents,
\* where the directories in bad cannot be read.
RECURSIVE Tally(_, _)
Tally(ents, bad) ==
  IF ents = <<>> THEN <<0, 0>>
  ELSE LET e == Head(ents)
           rest == Tally(Tail(ents), bad)
           own == IF ~e.isDir THEN <<1, e.size>>
                  ELSE IF e.name \in bad THEN <<0, 0>>
                  ELSE Tally(Listing(e.name), bad)
       IN <<own[1] + rest[1], own[2] + rest[2]>>

TreeTotals(d, bad) == IF d \in bad THEN <<0, 0>> ELSE Tally(Listing(d), bad)

RECURSIVE RootsTotals(_, _)
RootsTotals(rs, bad) ==
  IF rs = <<>> THEN <<0, 0>>
  ELSE LET a == TreeTotals(Head(rs), bad)
           b == RootsTotals(Tail(rs), bad)
       IN <<a[1] + b[1], a[2] + b[2]>>

\* The walkDir goroutines started so far (each after its n.Add(1)).
Registered == {w \in Tasks : walkers[w].pc # "none"}

\* The walkDir goroutines that have returned (each after its n.Done()).
Finished == {w \in Tasks : walkers[w].pc = "done"}

\* The goroutines inside dirents between the acquire and the release.
Reading == {w \in Tasks : walkers[w].pc = "read"}

AllFinished == \A w \in Tasks : walkers[w].pc \in {"none", "done"}

\* C1: for a tree under one root with N non-directory entries and no
\* unreadable directory, whatever the gate capacity, the buffer size and the
\* interleaving, the totals when the aggregator's loop has exited are file
\* count N and byte total the exact sum of the N sizes.
C1_ExactTotals ==
  (mainpc = "done" /\ Len(roots) = 1 /\ unreadable = {}) =>
    /\ nfiles = Tally(Listing(roots[1]), {})[1]
    /\ nbytes = Tally(Listing(roots[1]), {})[2]

C1_Witness ==
  /\ mainpc = "done"
  /\ roots = <<1>>
  /\ unreadable = {}
  /\ semaCap = 1
  /\ nfiles = 2
  /\ nbytes = 6

\* C2: fileSizes is closed at most once and exactly once by the time main is
\* done, the close is made only with the WaitGroup counter at zero, and from
\* the close on no walkDir is sending or about to send: every registered
\* walker has returned and no send on the closed channel has panicked.
C2_CloseOnceAtZero ==
  /\ closes <= 1
  /\ closed <=> (closes = 1)
  /\ watcher = "close" => n = 0
  /\ closed => (n = 0 /\ AllFinished)
  /\ mainpc = "done" => closes = 1
  /\ ~panicked

C2_Witness ==
  /\ closed
  /\ closes = 1
  /\ Len(roots) = 2
  /\ mainpc = "loop"
  /\ fileSizes # <<>>

\* C3: under fair scheduling, for every tree set, gate capacity and buffer
\* size (0 included), the run does not deadlock: every walker finishes, the
\* channel is closed and main's loop leaves for done, where it stays.
C3_Terminates == <>[](mainpc = "done" /\ closed /\ AllFinished /\ sema = 0)

C3_Witness ==
  /\ mainpc = "done"
  /\ bufCap = 0
  /\ semaCap = 1
  /\ Len(roots) = 2
  /\ Cardinality(Finished) >= 4

\* C4: every failed directory read is reported exactly once, the subtree of
\* an unreadable directory adds no file and no byte while every other
\* directory adds what it holds, and the run still ends with totals; when
\* the only root is unreadable there is exactly one error and the totals
\* are 0 files and 0 bytes.
C4_FailedReadIsLocal ==
  /\ errs = Cardinality({w \in Registered :
                           w[2] \in unreadable /\ walkers[w].pc \in {"loop", "done"}})
  /\ mainpc = "done" =>
       /\ nfiles = RootsTotals(roots, unreadable)[1]
       /\ nbytes = RootsTotals(roots, unreadable)[2]
       /\ (Len(roots) = 1 /\ roots[1] \in unreadable) =>
            (errs = 1 /\ nfiles = 0 /\ nbytes = 0)

C4_Witness ==
  /\ mainpc = "done"
  /\ roots = <<1, 2>>
  /\ unreadable = {2}
  /\ errs = 2
  /\ nfiles = 1
  /\ nbytes = 2

\* C5: the final totals of one run over the roots r1..rk are the sums of the
\* final totals of the runs over each ri alone (a root given twice and
\* unreadable roots included).  Checked when the last of the k runs over a
\* single root has ended.
C5_RootsAdd ==
  (run = Len(first.roots) + 1 /\ run > 1 /\ mainpc = "done") =>
    /\ first.nfiles = acc[1] + nfiles
    /\ first.nbytes = acc[2] + nbytes

C5_Witness ==
  /\ run = 3
  /\ mainpc = "done"
  /\ first.roots = <<1, 1>>
  /\ unreadable = {}
  /\ first.nfiles = 4
  /\ first.nbytes = 12
  /\ acc = <<2, 6>>
  /\ nfiles = 2

\* C6: the tokens outstanding (reads that have acquired the gate and not
\* released it) never exceed the capacity; while they equal the capacity an
\* acquire blocks, and otherwise a walker about to read gets its token:
\* acquiring never fails.
C6_GateBound ==
  /\ sema <= semaCap
  /\ sema = Cardinality(Reading)
  /\ \A w \in Tasks :
       walkers[w].pc = "start" => (ENABLED Acquire(w) <=> sema < semaCap)
  /\ ~panicked

C6_Witness ==
  /\ sema = semaCap
  /\ \E w \in Tasks : walkers[w].pc = "start" /\ ~ENABLED Acquire(w)

\* C7: with gate capacity 1 no two directory reads are in progress at once,
\* and the final totals of a run with capacity 1 (run 1) are those of a run
\* over the same trees with a larger capacity (run 2).
C7_SerialReads ==
  /\ semaCap = 1 => Cardinality(Reading) <= 1
  /\ (run = 2 /\ mainpc = "done" /\ semaCap > 1) =>
       (nfiles = first.nfiles /\ nbytes = first.nbytes)

C7_Witness ==
  /\ run = 2
  /\ mainpc = "done"
  /\ semaCap = 2
  /\ first.roots = <<1, 1>>
  /\ nfiles = 4
  /\ first.nfiles = 4

\* C8 as stated: once the counter has returned to zero, no walkDir sends on
\* fileSizes at any later point, also while main is still registering roots.
C8_NoSendAfterZero == [][hitZero => ~(\E w \in Tasks : Send(w))]_vars

\* C8 amended: once main has registered every root and the counter is zero,
\* the counter stays zero and no walkDir sends on fileSizes.
C8_NoSendAfterFinalZero ==
  [][(ri > Len(roots) /\ n = 0) => (n' = 0 /\ ~(\E w \in Tasks : Send(w)))]_vars

C8_Witness ==
  /\ ri > Len(roots)
  /\ n = 0
  /\ hitZero
  /\ Len(roots) = 2
  /\ fileSizes # <<>>

\* C9: the WaitGroup counter equals the walkers registered so far (the
\* per-root ones included) minus the walkers that have returned, and is
\* never negative.
C9_CounterIsInFlight ==
  /\ n = Cardinality(Registered) - Cardinality(Finished)
  /\ n >= 0

C9_Witness ==
  /\ n = 2
  /\ Cardinality(Finished) = 2
  /\ Cardinality(Registered) = 4

\* C10: two complete runs over the same unmodified trees (the same
\* unreadable directories), under any two interleavings and capacities, end
\* with the same file count and byte total.
C10_SameTotalsTwice ==
  (run = 2 /\ mainpc = "done") => (nfiles = first.nfiles /\ nbytes = first.nbytes)

C10_Witness ==
  /\ run = 2
  /\ mainpc = "done"
  /\ unreadable = {3}
  /\ first.roots = <<1, 2>>
  /\ nfiles = 3
  /\ nbytes = 10

\* C11 as stated: the gate's capacity is the configured value, the number of
\* logical processors by default and the value given with -t otherwise.
C11_GateFromConfig == semaCap = tFlag

\* C11 amended: the gate's capacity is the constant 256 whatever the startup
\* configuration is, and stays so for the whole run; the configured value
\* (the number of logical processors, or the one given with -t) sets
\* GOMAXPROCS only.
C11_GateIsConstant ==
  /\ semaCap = SemaCapacity
  /\ tFlag \in TFlags
  /\ gomaxprocs = tFlag

C11_Witness ==
  /\ tFlag = 1
  /\ gomaxprocs = 1
  /\ semaCap = SemaCapacity
  /\ Cardinality(Reading) = 2

Live == Registered \ Finished

\* The subdirectories among the entries dirents gives for directory d.
Subdirs(d) == {Entries(d)[i].name : i \in {j \in 1..Len(Entries(d)) : Entries(d)[j].isDir}}

\* C13: a walker is counted before it can run, and a walker marks itself
\* complete only after it has registered a walker for every subdirectory of
\* its directory; hence the counter is strictly positive while any
\* registered walker is unfinished.
C13_RegisterBeforeRun ==
  /\ n >= Cardinality(Live)
  /\ \A w \in Finished : \A d \in Subdirs(w[2]) : <<w[1], d>> \in Registered
  /\ Live # {} => n > 0

C13_Witness ==
  /\ walkers[<<1, 1>>].pc = "done"
  /\ walkers[<<1, 2>>].pc = "start"
  /\ n = 1
  /\ roots = <<1>>

\* C14: every walker decrements the counter exactly once, when it has
\* dispatched all its entries, on every path: a walker returns only from the
\* end of its range loop and its return takes exactly one off the counter,
\* the counter goes down in no other way, a returned walker does nothing
\* more, a walker of an empty or unreadable directory sends nothing and
\* spawns nothing, and when main is done every registered walker has
\* returned.
C14_DoneExactlyOnce ==
  [][/\ \A w \in Tasks :
          /\ (walkers[w].pc # "done" /\ walkers'[w].pc = "done") =>
               /\ walkers[w].pc = "loop"
               /\ walkers[w].todo = <<>>
               /\ n' = n - 1
          /\ walkers[w].pc = "done" => walkers'[w] = walkers[w]
          /\ (w \in Registered /\ Entries(w[2]) = <<>>) => ~(Send(w) \/ Spawn(w))
     /\ n' < n => /\ n' = n - 1
                  /\ Cardinality(Finished') = Cardinality(Finished) + 1
     /\ mainpc' = "done" => (Registered' = Finished' /\ n' = 0)]_vars

C14_Witness ==
  /\ mainpc = "done"
  /\ roots = <<1, 3>>
  /\ unreadable = {2}
  /\ Finished = {<<1, 1>>, <<1, 2>>, <<2, 3>>}
  /\ n = 0
  /\ nfiles = 1

\* C15: every directory read runs between one acquire and one matching
\* release: a walker gets into its read only by taking a token, leaves it
\* only by giving one back, whether ReadDir succeeded or failed, and reads
\* once; tokens are taken and given back in no other way, so a failed read
\* leaves no token behind and no token is out when main is done.
C15_AcquireReleasePairs ==
  [][/\ \A w \in Tasks :
          /\ (walkers[w].pc # "read" /\ walkers'[w].pc = "read") =>
               (walkers[w].pc = "start" /\ sema' = sema + 1)
          /\ (walkers[w].pc = "read" /\ walkers'[w].pc # "read") =>
               (walkers'[w].pc = "loop" /\ sema' = sema - 1)
          /\ walkers[w].pc \in {"loop", "done"} =>
               walkers'[w].pc \in {"loop", "done"}
     /\ sema' # sema => Reading' # Reading
     /\ sema' = Cardinality(Reading')
     /\ mainpc' = "done" => sema' = 0]_vars

C15_Witness ==
  /\ unreadable = {2}
  /\ roots = <<2, 1>>
  /\ walkers[<<1, 2>>].pc = "done"
  /\ walkers[<<2, 2>>].pc = "read"
  /\ semaCap = 1
  /\ sema = 1
  /\ errs = 1

\* C16: a token is held only for the directory read itself: the tokens out
\* are exactly the walkers inside their read, so a walker that is in its
\* range loop (sending or blocked sending, registering and spawning a child)
\* or that runs its deferred Done holds none, and those steps neither take
\* nor give back a token.
C16_TokenOnlyWhileReading ==
  [][/\ sema = Cardinality(Reading)
     /\ \A w \in Tasks :
          (walkers[w].pc = "loop" /\ walkers'[w] # walkers[w]) =>
            /\ w \notin Reading
            /\ sema' = sema
            /\ Reading' = Reading]_vars

\* A walker blocked in its send while no token is out.
C16_Witness ==
  \E w \in Tasks :
    /\ walkers[w].pc = "loop"
    /\ walkers[w].todo # <<>>
    /\ ~Head(walkers[w].todo).isDir
    /\ ~closed
    /\ Len(fileSizes) = bufCap
    /\ bufCap > 0
    /\ ~ENABLED Send(w)
    /\ sema = 0
    /\ Reading = {}

\* The number (k = 1) or the total size (k = 2) of the file entries in a list
\* of entries.
RECURSIVE FilesIn(_, _)
FilesIn(ents, k) ==
  IF ents = <<>> THEN 0
  ELSE (IF Head(ents).isDir THEN 0 ELSE IF k = 1 THEN 1 ELSE Head(ents).size)
       + FilesIn(Tail(ents), k)

\* The sends walker w has completed at line 107: the file entries of its
\* listing that its range loop has passed.
SentBy(w, k) ==
  IF walkers[w].pc \in {"loop", "done"}
  THEN FilesIn(Entries(w[2]), k) - FilesIn(walkers[w].todo, k)
  ELSE 0

RECURSIVE SentOver(_, _)
SentOver(ws, k) ==
  IF ws = {} THEN 0
  ELSE LET w == CHOOSE x \in ws : TRUE
       IN SentBy(w, k) + SentOver(ws \ {w}, k)

\* The values ever sent on fileSizes: how many, and their sum.
Sent == <<SentOver(Tasks, 1), SentOver(Tasks, 2)>>

\* C17: the aggregator loop is left only on a closed and empty channel, with
\* as many values received as were ever sent (and the same sum); the final
\* report is made once, at that step: afterwards main stays done, nothing is
\* sent or received and the totals stay as reported.
C17_ExitAfterDrain ==
  [][/\ (mainpc # "done" /\ mainpc' = "done") =>
          /\ mainpc = "loop"
          /\ closed
          /\ fileSizes = <<>>
          /\ nfiles = Sent[1]
          /\ nbytes = Sent[2]
          /\ UNCHANGED <<nfiles, nbytes, fileSizes>>
     /\ mainpc = "done" =>
          /\ mainpc' = "done"
          /\ Sent' = Sent
          /\ UNCHANGED <<nfiles, nbytes, fileSizes, closed>>]_vars

\* Main is done after a buffered run over two roots that sent three values.
C17_Witness ==
  /\ mainpc = "done"
  /\ closed
  /\ fileSizes = <<>>
  /\ bufCap = 1
  /\ roots = <<1, 2>>
  /\ unreadable = {}
  /\ nfiles = 3
  /\ Sent = <<3, 10>>

\* A step in which main's select receives a value: from the buffer, or
\* handed over by a sender at line 107 when the channel is unbuffered.
ReceiveStep ==
  /\ mainpc = "loop"
  /\ mainpc' = "loop"
  /\ nfiles' = nfiles + 1
  /\ \/ /\ fileSizes # <<>>
        /\ fileSizes' = Tail(fileSizes)
        /\ nbytes' = nbytes + Head(fileSizes)
        /\ walkers' = walkers
     \/ /\ bufCap = 0
        /\ fileSizes = <<>>
        /\ fileSizes' = <<>>
        /\ \E w \in Tasks :
             /\ walkers[w].pc = "loop"
             /\ walkers[w].todo # <<>>
             /\ ~Head(walkers[w].todo).isDir
             /\ nbytes' = nbytes + Head(walkers[w].todo).size
             /\ walkers' = [walkers EXCEPT ![w].todo = Tail(@)]

\* C18: the totals start at zero and change only in a receive of main's
\* select, by one file and by the received size, so they never go down and
\* the file count is the number of receives so far; a tick, a change of the
\* gate or of the counter, the close, and every walker step that is not the
\* handing over of a value to main leave them as they are.
C18_TotalsOnlyOnReceive ==
  /\ (nfiles = 0 /\ nbytes = 0)
  /\ [][/\ (nfiles' # nfiles \/ nbytes' # nbytes) => ReceiveStep
        /\ nfiles' >= nfiles
        /\ nbytes' >= nbytes
        /\ (progress' # progress \/ sema' # sema \/ n' # n \/ closed' # closed) =>
             UNCHANGED <<nfiles, nbytes>>
        /\ (walkers' # walkers /\ (bufCap > 0 \/ mainpc # "loop")) =>
             UNCHANGED <<nfiles, nbytes>>
        /\ mainpc # "loop" => UNCHANGED <<nfiles, nbytes>>]_vars

\* A tick was serviced between two receives.
C18_Witness ==
  /\ vFlag
  /\ progress.nfiles = 1
  /\ progress.nbytes = 2
  /\ nfiles = 2
  /\ nbytes = 6

\* Every root of the run has had its n.Add(1) and its go walkDir.
AllRootsRegistered ==
  /\ ri > Len(roots)
  /\ \A i \in 1..Len(roots) : <<i, roots[i]>> \in Registered

\* C19: the closer goroutine exists, and so waits on the counter, only once
\* every root has been registered and dispatched; while a root is still to be
\* registered there is no closer and fileSizes is open, whatever the counter
\* has done in the meantime.
C19_WatcherAfterAllRoots ==
  /\ watcher # "none" => AllRootsRegistered
  /\ closed => AllRootsRegistered
  /\ (mainpc = "roots" /\ ri <= Len(roots)) => (watcher = "none" /\ ~closed)

\* The first root's walkers have all returned and the counter is back at
\* zero while the second root is not registered yet.
C19_Witness ==
  /\ mainpc = "roots"
  /\ ri = 2
  /\ Len(roots) = 2
  /\ n = 0
  /\ hitZero
  /\ Finished # {}
  /\ watcher = "none"
  /\ ~closed

\* C20: the tick case of the select can be taken only in a run with -v.
\* Without -v it is never enabled and printProgress is never called, so
\* main's loop moves by its receive case alone; with -v, whatever ticks are
\* serviced, the loop still receives every value sent and observes the close:
\* main ends done on a closed, empty channel with every sent value counted.
C20_TickOnlyWhenVerbose ==
  /\ [](~vFlag => (progress = NoProgress /\ ~ENABLED Tick))
  /\ [][~vFlag => progress' = progress]_vars
  /\ [](vFlag => <>[](/\ mainpc = "done"
                      /\ closed
                      /\ fileSizes = <<>>
                      /\ nfiles = Sent[1]
                      /\ nbytes = Sent[2]))

\* A run with -v that serviced a tick between its receives and ended.
C20_Witness ==
  /\ vFlag
  /\ progress # NoProgress
  /\ progress.nfiles = 1
  /\ mainpc = "done"
  /\ closed
  /\ nfiles = 2

====
